---------------------------- MODULE Spec2Model ----------------------------
(***************************************************************************)
(* Model of the vesting calculator service (package main):                 *)
(*   models.go           Employee, VestingSchedule, VestingResult,         *)
(*                       VestingCache                                      *)
(*   vesting_service.go  VestingService: ProcessBatch, calculateVesting,   *)
(*                       GetResult, ClearCache, GetBatchResults,           *)
(*                       monthsBetween, addMonths, ValidateSchedule        *)
(*                                                                         *)
(* Go's float64 arithmetic is modelled bit-exactly (IEEE 754 binary64,     *)
(* round to nearest, ties to even) on multi-limb integers, because TLC's   *)
(* integers are 32 bits wide.  Go's time.Time values are modelled as       *)
(* calendar dates (all times in the program are midnight UTC).             *)
(***************************************************************************)
EXTENDS Integers, Sequences, FiniteSets, TLC

Max(a, b) == IF a >= b THEN a ELSE b
Min(a, b) == IF a <= b THEN a ELSE b

(***************************************************************************)
(* Multi-limb natural numbers: little-endian sequences of limbs < Base.    *)
(***************************************************************************)
LimbBits == 13
Base == 2^LimbBits

BigLimb(a, i) == IF i \in 1..Len(a) THEN a[i] ELSE 0

RECURSIVE BigNorm(_)
BigNorm(a) ==
    IF Len(a) = 0 THEN a
    ELSE IF a[Len(a)] = 0 THEN BigNorm(SubSeq(a, 1, Len(a) - 1))
    ELSE a

RECURSIVE BigFromInt(_)
BigFromInt(n) ==
    IF n = 0 THEN << >> ELSE <<n % Base>> \o BigFromInt(n \div Base)

RECURSIVE BigToInt(_)
BigToInt(a) ==
    IF Len(a) = 0 THEN 0 ELSE a[1] + Base * BigToInt(Tail(a))

RECURSIVE IntBitLen(_)
IntBitLen(n) == IF n = 0 THEN 0 ELSE 1 + IntBitLen(n \div 2)

BigBitLen(a) ==
    LET b == BigNorm(a)
    IN  IF Len(b) = 0 THEN 0
        ELSE LimbBits * (Len(b) - 1) + IntBitLen(b[Len(b)])

\* bit i (0 = least significant) of a
BigBit(a, i) == (BigLimb(a, (i \div LimbBits) + 1) \div 2^(i % LimbBits)) % 2

\* a mod 2^s # 0
BigLowNonzero(a, s) ==
    LET q == s \div LimbBits
        t == s % LimbBits
    IN  \/ \E j \in 1..Len(a) : j <= q /\ a[j] # 0
        \/ BigLimb(a, q + 1) % 2^t # 0

\* floor(a / 2^s)
BigShr(a, s) ==
    LET q == s \div LimbBits
        t == s % LimbBits
        n == Max(Len(a) - q, 0)
    IN  BigNorm([j \in 1..n |->
            (BigLimb(a, q + j) \div 2^t)
            + (BigLimb(a, q + j + 1) % 2^t) * 2^(LimbBits - t)])

\* a * 2^s
BigShl(a, s) ==
    LET q == s \div LimbBits
        t == s % LimbBits
    IN  BigNorm([j \in 1..(Len(a) + q + 1) |->
            IF j <= q THEN 0
            ELSE ((BigLimb(a, j - q) * 2^t) % Base)
                 + (BigLimb(a, j - q - 1) \div 2^(LimbBits - t))])

RECURSIVE BigAddC(_, _, _, _)
BigAddC(a, b, i, c) ==
    IF i > Max(Len(a), Len(b))
    THEN (IF c = 0 THEN << >> ELSE <<c>>)
    ELSE LET s == BigLimb(a, i) + BigLimb(b, i) + c
         IN  <<s % Base>> \o BigAddC(a, b, i + 1, s \div Base)

BigAdd(a, b) == BigNorm(BigAddC(a, b, 1, 0))

\* sum of a[i] * b[k - i] over the limb pairs of column k (k = 2 is the lowest)
RECURSIVE BigColSum(_, _, _, _)
BigColSum(a, b, k, i) ==
    IF i > Len(a) THEN 0
    ELSE BigLimb(a, i) * BigLimb(b, k - i) + BigColSum(a, b, k, i + 1)

RECURSIVE BigMulC(_, _, _, _)
BigMulC(a, b, k, c) ==
    IF k > Len(a) + Len(b)
    THEN (IF c = 0 THEN << >> ELSE <<c>>)
    ELSE LET s == BigColSum(a, b, k, 1) + c
         IN  <<s % Base>> \o BigMulC(a, b, k + 1, s \div Base)

\* a * b; one of the factors has at most 5 limbs, so a column sum fits 31 bits
BigMul(a, b) ==
    IF Len(a) <= Len(b) THEN BigNorm(BigMulC(a, b, 2, 0))
    ELSE BigNorm(BigMulC(b, a, 2, 0))

\* quotient and remainder of a by the small integer d (0 < d < 2^17), from the
\* top limb down; i is the limb being divided and r the running remainder
RECURSIVE BigDivSmallC(_, _, _, _)
BigDivSmallC(a, d, i, r) ==
    IF i = 0 THEN [q |-> << >>, r |-> r]
    ELSE LET cur   == r * Base + a[i]
             below == BigDivSmallC(a, d, i - 1, cur % d)
         IN  [q |-> below.q \o <<cur \div d>>, r |-> below.r]

BigDivSmall(a, d) ==
    LET res == BigDivSmallC(a, d, Len(a), 0)
    IN  [q |-> BigNorm(res.q), r |-> res.r]

(***************************************************************************)
(* float64: a finite value is (-1)^neg * m * 2^e with m = 0 or             *)
(* 2^52 <= m < 2^53 (m a multi-limb natural).  nan marks the result of     *)
(* inf * 0; inf marks a division by zero.                                  *)
(***************************************************************************)
MantBits == 53

F64Zero == [kind |-> "fin", neg |-> FALSE, m |-> << >>, e |-> 0]
F64Inf(neg) == [kind |-> "inf", neg |-> neg, m |-> << >>, e |-> 0]
F64NaN == [kind |-> "nan", neg |-> FALSE, m |-> << >>, e |-> 0]

\* n * 2^e (plus, when sticky, a nonzero fraction below the last bit of n),
\* rounded to nearest, ties to even
F64Round(neg, n, sticky, e) ==
    LET L == BigBitLen(n)
    IN  IF L = 0 THEN F64Zero
        ELSE IF L <= MantBits
        THEN [kind |-> "fin", neg |-> neg,
              m |-> BigShl(n, MantBits - L), e |-> e - (MantBits - L)]
        ELSE LET s     == L - MantBits
                 q     == BigShr(n, s)
                 guard == BigBit(n, s - 1) = 1
                 rest  == BigLowNonzero(n, s - 1) \/ sticky
                 odd   == BigBit(n, s) = 1
                 up    == guard /\ (rest \/ odd)
                 m1    == IF up THEN BigAdd(q, <<1>>) ELSE q
             IN  IF BigBitLen(m1) > MantBits
                 THEN [kind |-> "fin", neg |-> neg,
                       m |-> BigShr(m1, 1), e |-> e + s + 1]
                 ELSE [kind |-> "fin", neg |-> neg, m |-> m1, e |-> e + s]

Abs(n) == IF n < 0 THEN 0 - n ELSE n

\* float64(n) for an int n (exact below 2^53)
F64FromInt(n) == F64Round(n < 0, BigFromInt(Abs(n)), FALSE, 0)

\* float64(a) / float64(b) for ints a, b: the correctly rounded quotient
QuotShift == 6 * LimbBits
F64DivInt(a, b) ==
    IF b = 0
    THEN (IF a = 0 THEN F64NaN ELSE F64Inf(a < 0))
    ELSE LET num == BigShl(BigFromInt(Abs(a)), QuotShift)
             res == BigDivSmall(num, Abs(b))
         IN  F64Round((a < 0) # (b < 0), res.q, res.r # 0, 0 - QuotShift)

F64Mul(x, y) ==
    IF x.kind = "nan" \/ y.kind = "nan" THEN F64NaN
    ELSE IF x.kind = "inf" \/ y.kind = "inf"
    THEN (IF (x.kind = "fin" /\ Len(x.m) = 0) \/ (y.kind = "fin" /\ Len(y.m) = 0)
          THEN F64NaN
          ELSE F64Inf(x.neg # y.neg))
    ELSE IF Len(x.m) = 0 \/ Len(y.m) = 0 THEN F64Zero
    ELSE F64Round(x.neg # y.neg, BigMul(x.m, y.m), FALSE, x.e + y.e)

\* x + y for finite x, y >= 0
F64Add(x, y) ==
    IF Len(x.m) = 0 THEN y
    ELSE IF Len(y.m) = 0 THEN x
    ELSE LET e0 == Min(x.e, y.e)
         IN  F64Round(FALSE,
                      BigAdd(BigShl(x.m, x.e - e0), BigShl(y.m, y.e - e0)),
                      FALSE, e0)

\* the integer part of a finite x, towards zero (Go's int(x) and, for
\* x >= 0, math.Floor(x))
F64Trunc(x) ==
    LET mag == IF x.e >= 0 THEN BigToInt(BigShl(x.m, x.e))
               ELSE BigToInt(BigShr(x.m, 0 - x.e))
    IN  IF x.neg THEN 0 - mag ELSE mag

\* the state: the service, the pure function applied on its own, and the build
\* (each variable is described with the service below)
VARIABLES cache, mu, calls, reader, clearer, crashed, arg, ret, nanInt

(***************************************************************************)
(* Go's int.  It is 64 bits wide on the 64-bit builds; the model keeps a   *)
(* two's-complement int of IntBits bits, wide enough for every count of    *)
(* units and months of the model and narrow enough for the integers of     *)
(* TLC, so that a value next to the ends of the range wraps as it does in  *)
(* Go.                                                                     *)
(***************************************************************************)
IntBits == 31
MinInt == 0 - 2^(IntBits - 1)
MaxInt == 2^(IntBits - 1) - 1

\* the int that the exact result n of an int addition or subtraction wraps to
WrapInt(n) ==
    IF n > MaxInt THEN MinInt + ((n - MaxInt) - 1)
    ELSE IF n < MinInt THEN MaxInt - ((MinInt - n) - 1)
    ELSE n

\* int(x) of a float64 that no int represents is implementation-dependent:
\* for a NaN the 64-bit builds yield the least int (amd64), 0 (arm64) or the
\* greatest int (riscv64)
IntOfNaN == {MinInt, 0, MaxInt}

\* int(x), and int(math.Floor(x)) for x >= 0.  The one float64 of
\* calculateVesting that is not finite is the NaN of the linear branch with
\* vestingMonths = cliffMonths (infinity times monthsVested = 0)
F64ToInt(x) ==
    IF x.kind = "fin" THEN F64Trunc(x) ELSE nanInt


(***************************************************************************)
(* time.Time restricted to calendar dates: [y, m, d].                      *)
(***************************************************************************)
MkDate(y, m, d) == [y |-> y, m |-> m, d |-> d]

\* the zero time.Time (January 1, year 1)
ZeroTime == MkDate(1, 1, 1)

IsLeap(y) == (y % 4 = 0 /\ y % 100 # 0) \/ y % 400 = 0

DaysIn(y, m) ==
    IF m = 2 THEN (IF IsLeap(y) THEN 29 ELSE 28)
    ELSE IF m \in {4, 6, 9, 11} THEN 30
    ELSE 31

\* t.Before(u)
Before(t, u) ==
    \/ t.y < u.y
    \/ t.y = u.y /\ t.m < u.m
    \/ t.y = u.y /\ t.m = u.m /\ t.d < u.d

\* t.AddDate(0, months, 0): time.Date(y, m + months, d) normalises the month
\* into the year and lets a day past the end of the month run over into the
\* next month (January 31 plus one month is March 3, or March 2 in a leap year)
AddDate(t, months) ==
    LET m0 == t.m - 1 + months
        y1 == t.y + (m0 \div 12)
        m1 == (m0 % 12) + 1
        dim == DaysIn(y1, m1)
    IN  IF t.d <= dim THEN MkDate(y1, m1, t.d)
        ELSE IF m1 = 12 THEN MkDate(y1 + 1, 1, t.d - dim)
        ELSE MkDate(y1, m1 + 1, t.d - dim)

\* the loop of monthsBetween: start is advanced one month at a time while it
\* is before end
RECURSIVE monthsLoop(_, _, _)
monthsLoop(start, end, months) ==
    IF Before(start, end)
    THEN monthsLoop(AddDate(start, 1), end, months + 1)
    ELSE months

\* monthsBetween with the loop also taken when start has reached end
RECURSIVE monthsLoopInclusive(_, _, _)
monthsLoopInclusive(start, end, months) ==
    IF ~Before(end, start)
    THEN monthsLoopInclusive(AddDate(start, 1), end, months + 1)
    ELSE months

monthsBetweenInclusive(start, end) == monthsLoopInclusive(start, end, 0)

\* monthsBetween returning the months in excess of whole years
monthsBetweenInYear(start, end) == monthsLoop(start, end, 0) % 12

monthsBetween(start, end) == monthsLoop(start, end, 0)

addMonths(t, months) == AddDate(t, months)

(***************************************************************************)
(* models.go: the records.  Employee.Name is display only and is left out. *)
(***************************************************************************)
MkSchedule(cliff, total, type) ==
    [CliffMonths |-> cliff, VestingMonths |-> total, VestingType |-> type]

MkEmployee(id, start, units, schedule) ==
    [ID |-> id, StartDate |-> start, TotalUnits |-> units, Schedule |-> schedule]

MkResult(id, vested, unvested, next, asOf) ==
    [EmployeeID |-> id, VestedUnits |-> vested, UnvestedUnits |-> unvested,
     NextVestDate |-> next, AsOfDate |-> asOf]

\* VestingResult{}
ZeroResult == MkResult("", 0, 0, ZeroTime, ZeroTime)

\* the nil error
Nil == [msg |-> "nil"]

(***************************************************************************)
(* calculateVesting                                                        *)
(***************************************************************************)
\* percentages := []float64{0.1, 0.2, 0.3, 0.4}; the literal k/10 is the
\* float64 nearest to it
NumPercentages == 4
percentages(i) == F64DivInt(i + 1, 10)

\* the sum of the percentages of the completed years only (i < yearsVested)
RECURSIVE sumPercentagesExclusive(_, _, _)
sumPercentagesExclusive(i, yearsVested, totalPercent) ==
    IF i < yearsVested /\ i < NumPercentages
    THEN sumPercentagesExclusive(i + 1, yearsVested,
                                 F64Add(totalPercent, percentages(i)))
    ELSE totalPercent

\* for i := 0; i <= yearsVested && i < len(percentages); i++ {
\*     totalPercent += percentages[i] }
RECURSIVE sumPercentages(_, _, _)
sumPercentages(i, yearsVested, totalPercent) ==
    IF i <= yearsVested /\ i < NumPercentages
    THEN sumPercentages(i + 1, yearsVested, F64Add(totalPercent, percentages(i)))
    ELSE totalPercent

\* the linear branch: vestedUnits
linearVested(totalUnits, cliffMonths, vestingMonths, monthsEmployed) ==
    LET monthsVested0 == monthsEmployed - cliffMonths
        monthsVested ==
            IF monthsVested0 > vestingMonths - cliffMonths
            THEN vestingMonths - cliffMonths
            ELSE monthsVested0
        vestingMonthsAfterCliff == vestingMonths - cliffMonths
        unitsPerMonth == F64DivInt(totalUnits, vestingMonthsAfterCliff)
    IN  F64ToInt(F64Mul(unitsPerMonth, F64FromInt(monthsVested)))

\* the backloaded branch: totalPercent
backloadedPercent(cliffMonths, monthsEmployed) ==
    LET yearsVested == (monthsEmployed - cliffMonths) \div 12
        summed == sumPercentages(0, yearsVested, F64Zero)
        monthsInCurrentYear == (monthsEmployed - cliffMonths) % 12
    IN  IF yearsVested < NumPercentages /\ monthsInCurrentYear > 0
        THEN F64Add(summed,
                    F64Mul(percentages(yearsVested),
                           F64DivInt(monthsInCurrentYear, 12)))
        ELSE summed

\* the backloaded branch: vestedUnits
backloadedVested(totalUnits, cliffMonths, monthsEmployed) ==
    F64ToInt(F64Mul(F64FromInt(totalUnits),
                    backloadedPercent(cliffMonths, monthsEmployed)))

\* vestedUnits past the cliff; an unknown VestingType leaves it 0
vestedUnitsOf(employee, monthsEmployed) ==
    IF employee.Schedule.VestingType = "linear"
    THEN linearVested(employee.TotalUnits, employee.Schedule.CliffMonths,
                      employee.Schedule.VestingMonths, monthsEmployed)
    ELSE IF employee.Schedule.VestingType = "backloaded"
    THEN backloadedVested(employee.TotalUnits, employee.Schedule.CliffMonths,
                          monthsEmployed)
    ELSE 0

\* the error of a non-positive grant
invalidUnits(employee) ==
    [msg |-> "invalid total units", units |-> employee.TotalUnits]

\* the cliff rule with the next vest date counted from asOfDate
cliffResultFromAsOf(employee, asOfDate) ==
    [result |-> MkResult(employee.ID, 0, employee.TotalUnits,
                         addMonths(asOfDate, employee.Schedule.CliffMonths),
                         asOfDate),
     err |-> Nil]

\* still in the cliff period: return VestingResult{...}, nil
cliffResult(employee, asOfDate) ==
    [result |-> MkResult(employee.ID, 0, employee.TotalUnits,
                         addMonths(employee.StartDate,
                                   employee.Schedule.CliffMonths),
                         asOfDate),
     err |-> Nil]

\* the next vest date set also when nothing is left to vest
nextVestDateOfAlways(employee, vestedUnits, asOfDate) ==
    addMonths(asOfDate, 1)

\* var nextVestDate time.Time, set when vestedUnits < TotalUnits: one month
\* after asOfDate for both vesting types
nextVestDateOf(employee, vestedUnits, asOfDate) ==
    IF vestedUnits < employee.TotalUnits
    THEN addMonths(asOfDate, 1)
    ELSE ZeroTime

\* the result past the cliff with the whole grant reported as unvested
resultOfAllUnvested(employee, vestedUnits, asOfDate) ==
    [result |-> MkResult(employee.ID, vestedUnits, employee.TotalUnits,
                         nextVestDateOf(employee, vestedUnits, asOfDate),
                         asOfDate),
     err |-> Nil]

\* past the cliff: return VestingResult{...}, nil
resultOf(employee, vestedUnits, asOfDate) ==
    [result |-> MkResult(employee.ID, vestedUnits,
                         WrapInt(employee.TotalUnits - vestedUnits),
                         nextVestDateOf(employee, vestedUnits, asOfDate),
                         asOfDate),
     err |-> Nil]

\* calculateVesting past the check of TotalUnits
vestingOf(employee, asOfDate) ==
    LET monthsEmployed == monthsBetween(employee.StartDate, asOfDate)
    IN  IF monthsEmployed < employee.Schedule.CliffMonths
        THEN cliffResult(employee, asOfDate)
        ELSE resultOf(employee, vestedUnitsOf(employee, monthsEmployed), asOfDate)

\* calculateVesting with the check of TotalUnits letting a grant of 0 through
calculateVestingZeroAllowed(employee, asOfDate) ==
    IF employee.TotalUnits < 0
    THEN [result |-> ZeroResult, err |-> invalidUnits(employee)]
    ELSE vestingOf(employee, asOfDate)

\* calculateVesting refusing a vesting type that is neither linear nor
\* backloaded
calculateVestingRejectingType(employee, asOfDate) ==
    IF employee.TotalUnits <= 0
    THEN [result |-> ZeroResult, err |-> invalidUnits(employee)]
    ELSE IF employee.Schedule.VestingType \notin {"linear", "backloaded"}
    THEN [result |-> ZeroResult,
          err |-> [msg |-> "invalid vesting type",
                   type |-> employee.Schedule.VestingType]]
    ELSE vestingOf(employee, asOfDate)

\* (VestingResult, error)
calculateVesting(employee, asOfDate) ==
    IF employee.TotalUnits <= 0
    THEN [result |-> ZeroResult, err |-> invalidUnits(employee)]
    ELSE vestingOf(employee, asOfDate)

(***************************************************************************)
(* ValidateSchedule                                                        *)
(***************************************************************************)
\* ValidateSchedule accepting vestingMonths = cliffMonths
ValidateScheduleEqualAllowed(schedule) ==
    IF schedule.CliffMonths < 0
    THEN [msg |-> "cliff months cannot be negative"]
    ELSE IF schedule.VestingMonths < schedule.CliffMonths
    THEN [msg |-> "total vesting months must be greater than cliff months"]
    ELSE IF schedule.VestingType # "linear" /\ schedule.VestingType # "backloaded"
    THEN [msg |-> "invalid vesting type", type |-> schedule.VestingType]
    ELSE Nil

ValidateSchedule(schedule) ==
    IF schedule.CliffMonths < 0
    THEN [msg |-> "cliff months cannot be negative"]
    ELSE IF schedule.VestingMonths <= schedule.CliffMonths
    THEN [msg |-> "total vesting months must be greater than cliff months"]
    ELSE IF schedule.VestingType # "linear" /\ schedule.VestingType # "backloaded"
    THEN [msg |-> "invalid vesting type", type |-> schedule.VestingType]
    ELSE Nil

(***************************************************************************)
(* The service.                                                            *)
(*   cache    vs.cache.results of the current cache: a function from the   *)
(*            employee IDs that have an entry to their VestingResult       *)
(*   mu       the holder of vs.mu: "free", "reader" or "clearer"           *)
(*   calls    the ProcessBatch invocations, one per slot                   *)
(*   reader   the client thread that calls GetResult / GetBatchResults;    *)
(*            seen records the contents the cache has had for the IDs of   *)
(*            a GetBatchResults call at the instants of that call          *)
(*   clearer  the client thread that calls ClearCache; clean records that  *)
(*            no ProcessBatch call has been in flight since its last call  *)
(*            of ClearCache began                                          *)
(*   crashed  the runtime has stopped the process with a fatal error       *)
(*   arg, ret the argument and the result of a pure function applied on    *)
(*            its own (SpecCalc, SpecMonths)                               *)
(*   nanInt   the int that this build's conversion int(x) yields for a NaN *)
(***************************************************************************)

vars == <<cache, mu, calls, reader, clearer, crashed, arg, ret, nanInt>>
svcVars == <<cache, mu, calls, reader, clearer, crashed>>

\* bounds of the model
NumCalls == 2
MaxBatch == 2
MaxIDs == 2
MaxReads == 1
MaxClears == 1
MaxOps == 2
MaxActive == 3

Calls == 1..NumCalls

\* sequences over S of length at most n
SeqsUpTo(S, n) == UNION {[1..k -> S] : k \in 0..n}

\* the employee records submitted to the service
EmpA == MkEmployee("e1", MkDate(2021, 1, 1), 48000, MkSchedule(12, 48, "linear"))
EmpB == MkEmployee("e2", MkDate(2021, 1, 1), 40000, MkSchedule(12, 48, "backloaded"))
EmpZ == MkEmployee("e2", MkDate(2022, 1, 1), 0, MkSchedule(12, 48, "linear"))
EmpN == MkEmployee("e1", MkDate(2022, 1, 1), -1000, MkSchedule(12, 48, "linear"))
EmployeePool == <<EmpA, EmpB, EmpZ, EmpN>>
\* the batches: the goroutines of a batch are not ordered, so one order of
\* each choice of at most MaxBatch records is enough
Batches ==
    {[i \in 1..Len(ix) |-> EmployeePool[ix[i]]] :
        ix \in {jx \in SeqsUpTo(1..Len(EmployeePool), MaxBatch) :
                   \A i \in 1..Len(jx), j \in 1..Len(jx) : i < j => jx[i] < jx[j]}}
AsOfPool == {MkDate(2020, 1, 1), MkDate(2023, 1, 1)}
IDs == {"e1", "e2"}
Requests == SeqsUpTo(IDs, MaxIDs)

\* NewVestingCache(): an empty map
NewVestingCache == << >>

\* the nil map
NilMap == [nil |-> TRUE]

\* m[k] = v
MapPut(m, k, v) ==
    [x \in (DOMAIN m) \cup {k} |-> IF x = k THEN v ELSE m[x]]

NoCall ==
    [pc |-> "idle", employees |-> << >>, asOfDate |-> ZeroTime, workers |-> << >>,
     errors |-> << >>, ret |-> Nil, alone |-> TRUE]

NoRead ==
    [pc |-> "idle", op |-> "none", ids |-> << >>, i |-> 0, results |-> << >>,
     ret |-> Nil, quiet |-> TRUE, seen |-> {}, n |-> 0]

NoRet == [none |-> TRUE]

\* NewVestingService()
NewVestingService ==
    /\ cache = NewVestingCache
    /\ mu = "free"
    /\ calls = [c \in Calls |-> NoCall]
    /\ reader = NoRead
    /\ clearer = [pc |-> "idle", n |-> 0, clean |-> FALSE]
    /\ crashed = FALSE

Init ==
    /\ NewVestingService
    /\ nanInt \in IntOfNaN
    /\ arg = NoRet
    /\ ret = NoRet

\* the workers that are inside the assignment vs.cache.results[employee.ID] = result
Writers ==
    {w \in Calls \X (1..MaxBatch) :
        /\ w[2] <= Len(calls[w[1]].workers)
        /\ calls[w[1]].workers[w[2]].pc = "writing"}

Running == {c \in Calls : calls[c].pc = "running"}

\* the ProcessBatch, GetResult and GetBatchResults calls started so far
OpsStarted ==
    Cardinality({c \in Calls : calls[c].pc # "idle"}) + reader.n

\* the operations in flight
Active ==
    Cardinality(Running)
    + (IF reader.pc \in {"loop", "reading"} THEN 1 ELSE 0)
    + (IF clearer.pc = "clearing" THEN 1 ELSE 0)

\* an operation may start
MayStart == ~crashed /\ Active < MaxActive

\* the reader is inside GetResult's read of vs.cache.results, holding vs.mu
ReaderIn == reader.pc = "reading"
\* the clearer is inside ClearCache, holding vs.mu
ClearerIn == clearer.pc = "clearing"
\* a GetResult / GetBatchResults call has started and its result is not yet
\* taken by a next call
ReaderActive == reader.pc # "idle"

\* the contents of the map m for the requested IDs
Snapshot(m, ids) ==
    [id \in {ids[k] : k \in DOMAIN ids} \cap DOMAIN m |-> m[id]]

\* the reader once vs.cache.results has become m: a GetBatchResults call in
\* progress has one more instant, with these contents for its IDs
Observe(m) ==
    IF reader.op = "GetBatchResults" /\ reader.pc \in {"loop", "reading"}
    THEN [reader EXCEPT !.seen = @ \cup {Snapshot(m, reader.ids)}]
    ELSE reader

\* ProcessBatch(employees, asOfDate) up to wg.Wait(): one goroutine is started
\* per employee, each with its own copy of the employee.  result and err are
\* the goroutine's locals; calculateVesting reads nothing but its arguments,
\* which no one changes, so they hold from the start what the call gives
ProcessBatch(c, employees, asOfDate) ==
    /\ MayStart
    /\ OpsStarted < MaxOps
    /\ calls[c].pc = "idle"
    /\ c > 1 => calls[c - 1].pc # "idle"
    /\ calls' = [d \in Calls |->
          IF d = c
          THEN [pc |-> "running", employees |-> employees, asOfDate |-> asOfDate,
                workers |-> [i \in 1..Len(employees) |->
                               LET r == calculateVesting(employees[i], asOfDate)
                               IN  [pc |-> "ready", raced |-> FALSE,
                                    stale |-> FALSE,
                                    result |-> r.result, err |-> r.err]],
                errors |-> << >>, ret |-> Nil,
                alone |-> Running = {} /\ ~ClearerIn]
          ELSE IF d \in Running THEN [calls[d] EXCEPT !.alone = FALSE]
          ELSE calls[d]]
    /\ clearer' = [clearer EXCEPT !.clean = FALSE]
    /\ UNCHANGED <<cache, mu, reader, crashed, arg, ret, nanInt>>

\* a worker whose calculateVesting fails: errors <- err; return.  The send
\* waits for room in the channel, which is made with len(employees) slots
WorkerFail(c, i) ==
    /\ ~crashed
    /\ calls[c].pc = "running"
    /\ i \in 1..Len(calls[c].workers)
    /\ calls[c].workers[i].pc = "ready"
    /\ Len(calls[c].errors) < Len(calls[c].employees)
    /\ calls[c].workers[i].err # Nil
    /\ calls' = [calls EXCEPT ![c].workers[i].pc = "done",
                              ![c].errors = Append(@, calls[c].workers[i].err)]
    /\ UNCHANGED <<cache, mu, reader, clearer, crashed, arg, ret, nanInt>>

\* a worker whose calculateVesting succeeds enters the map assignment
\* vs.cache.results[employee.ID] = result, without taking vs.mu; the writes in
\* flight at that moment overlap it
WorkerStoreBegin(c, i) ==
    /\ ~crashed
    /\ calls[c].pc = "running"
    /\ i \in 1..Len(calls[c].workers)
    /\ calls[c].workers[i].pc = "ready"
    /\ calls[c].workers[i].err = Nil
    /\ calls' = [d \in Calls |->
          [calls[d] EXCEPT !.workers = [j \in 1..Len(calls[d].workers) |->
              IF d = c /\ j = i
              THEN [calls[d].workers[j] EXCEPT !.pc = "writing",
                                               !.raced = Writers # {}]
              ELSE IF <<d, j>> \in Writers
              THEN [calls[d].workers[j] EXCEPT !.raced = TRUE]
              ELSE calls[d].workers[j]]]]
    /\ reader' = IF ReaderActive THEN [reader EXCEPT !.quiet = FALSE] ELSE reader
    /\ UNCHANGED <<cache, mu, clearer, crashed, arg, ret, nanInt>>

\* the map assignment completes.  A write into a map that ClearCache has
\* replaced meanwhile does not reach the current cache; a write that overlapped
\* another write is a data race, after which the entry may be missing
WorkerStoreEnd(c, i) ==
    /\ ~crashed
    /\ calls[c].pc = "running"
    /\ i \in 1..Len(calls[c].workers)
    /\ calls[c].workers[i].pc = "writing"
    /\ \E lost \in (IF calls[c].workers[i].raced THEN {FALSE, TRUE} ELSE {FALSE}) :
          cache' = IF lost \/ calls[c].workers[i].stale
                   THEN cache
                   ELSE MapPut(cache, calls[c].employees[i].ID,
                               calls[c].workers[i].result)
    /\ reader' = Observe(cache')
    /\ calls' = [calls EXCEPT ![c].workers[i].pc = "done",
                              ![c].workers[i].raced = FALSE,
                              ![c].workers[i].stale = FALSE]
    /\ UNCHANGED <<mu, clearer, crashed, arg, ret, nanInt>>

\* wg.Wait() returns, the channel is closed and drained: the first error in
\* it is returned, or nil
ProcessBatchReturn(c) ==
    /\ ~crashed
    /\ calls[c].pc = "running"
    /\ \A i \in 1..Len(calls[c].workers) : calls[c].workers[i].pc = "done"
    /\ calls' = [calls EXCEPT ![c].pc = "returned",
                              ![c].errors = << >>,
                              ![c].ret = IF calls[c].errors = << >> THEN Nil
                                         ELSE Head(calls[c].errors)]
    /\ UNCHANGED <<cache, mu, reader, clearer, crashed, arg, ret, nanInt>>

\* the Go runtime detects two overlapping map writes, or a map read
\* overlapping a map write, and stops the process (fatal error: concurrent map
\* writes / concurrent map read and map write)
Fatal ==
    /\ ~crashed
    /\ \/ Cardinality(Writers) >= 2
       \/ Writers # {} /\ ReaderIn
    /\ crashed' = TRUE
    /\ UNCHANGED <<cache, mu, calls, reader, clearer, arg, ret, nanInt>>

\* the reader calls GetResult(employeeID)
GetResult(id) ==
    /\ MayStart
    /\ OpsStarted < MaxOps
    /\ reader.pc \in {"idle", "returned"}
    /\ reader.n < MaxReads
    /\ reader' = [pc |-> "loop", op |-> "GetResult", ids |-> <<id>>, i |-> 1,
                  results |-> << >>, ret |-> Nil,
                  quiet |-> Writers = {} /\ ~ClearerIn, seen |-> {},
                  n |-> reader.n + 1]
    /\ UNCHANGED <<cache, mu, calls, clearer, crashed, arg, ret, nanInt>>

\* the reader calls GetBatchResults(employeeIDs): results := make(map); with
\* no ID to look up the loop is skipped and the empty map is returned
GetBatchResults(ids) ==
    /\ MayStart
    /\ OpsStarted < MaxOps
    /\ reader.pc \in {"idle", "returned"}
    /\ reader.n < MaxReads
    /\ reader' = [pc |-> IF Len(ids) = 0 THEN "returned" ELSE "loop",
                  op |-> "GetBatchResults", ids |-> ids, i |-> 1,
                  results |-> << >>,
                  ret |-> [results |-> << >>, err |-> Nil],
                  quiet |-> Writers = {} /\ ~ClearerIn,
                  seen |-> {Snapshot(cache, ids)}, n |-> reader.n + 1]
    /\ UNCHANGED <<cache, mu, calls, clearer, crashed, arg, ret, nanInt>>

\* GetResult: vs.mu.Lock()
GetResultLock ==
    /\ ~crashed
    /\ reader.pc = "loop"
    /\ mu = "free"
    /\ mu' = "reader"
    /\ reader' = [reader EXCEPT !.pc = "reading"]
    /\ UNCHANGED <<cache, calls, clearer, crashed, arg, ret, nanInt>>

\* the error of GetBatchResults
notFound(id) == [msg |-> "result not found for employee", id |-> id]

\* GetResultUnlock with GetBatchResults skipping a missing ID instead of
\* returning the error
GetResultUnlockSkipMissing ==
    /\ ~crashed
    /\ reader.pc = "reading"
    /\ mu' = "free"
    /\ LET id == reader.ids[reader.i]
           exists == id \in DOMAIN cache
           result == IF exists THEN cache[id] ELSE ZeroResult
           results == IF exists THEN MapPut(reader.results, id, result)
                      ELSE reader.results
       IN  reader' =
             IF reader.op = "GetResult"
             THEN [reader EXCEPT !.pc = "returned",
                                 !.ret = [result |-> result, exists |-> exists]]
             ELSE IF reader.i = Len(reader.ids)
             THEN [reader EXCEPT !.pc = "returned", !.results = results,
                                 !.ret = [results |-> results, err |-> Nil]]
             ELSE [reader EXCEPT !.pc = "loop", !.results = results,
                                 !.i = reader.i + 1]
    /\ UNCHANGED <<cache, calls, clearer, crashed, arg, ret, nanInt>>

\* GetResult: result, exists := vs.cache.results[employeeID]; the deferred
\* vs.mu.Unlock(); return.  Called on its own it returns (result, exists);
\* called by GetBatchResults the loop stores the result and goes on to the
\* next ID, or returns (nil, error) for a missing one
GetResultUnlock ==
    /\ ~crashed
    /\ reader.pc = "reading"
    /\ mu' = "free"
    /\ LET id == reader.ids[reader.i]
           exists == id \in DOMAIN cache
           result == IF exists THEN cache[id] ELSE ZeroResult
           results == MapPut(reader.results, id, result)
       IN  reader' =
             IF reader.op = "GetResult"
             THEN [reader EXCEPT !.pc = "returned",
                                 !.ret = [result |-> result, exists |-> exists]]
             ELSE IF ~exists
             THEN [reader EXCEPT !.pc = "returned",
                                 !.ret = [results |-> NilMap, err |-> notFound(id)]]
             ELSE IF reader.i = Len(reader.ids)
             THEN [reader EXCEPT !.pc = "returned", !.results = results,
                                 !.ret = [results |-> results, err |-> Nil]]
             ELSE [reader EXCEPT !.pc = "loop", !.results = results,
                                 !.i = reader.i + 1]
    /\ UNCHANGED <<cache, calls, clearer, crashed, arg, ret, nanInt>>

\* ClearCache: vs.mu.Lock()
ClearCacheLock ==
    /\ MayStart
    /\ clearer.pc = "idle"
    /\ clearer.n < MaxClears
    /\ mu = "free"
    /\ mu' = "clearer"
    /\ clearer' = [pc |-> "clearing", n |-> clearer.n + 1, clean |-> Running = {}]
    /\ calls' = [d \in Calls |->
          IF d \in Running THEN [calls[d] EXCEPT !.alone = FALSE] ELSE calls[d]]
    /\ reader' = IF ReaderActive THEN [reader EXCEPT !.quiet = FALSE] ELSE reader
    /\ UNCHANGED <<cache, crashed, arg, ret, nanInt>>

\* ClearCacheUnlock with the entries of the cache kept
ClearCacheUnlockKeeping ==
    /\ ~crashed
    /\ clearer.pc = "clearing"
    /\ mu' = "free"
    /\ clearer' = [clearer EXCEPT !.pc = "idle"]
    /\ UNCHANGED <<cache, calls, reader, crashed, arg, ret, nanInt>>

\* ClearCache: vs.cache = NewVestingCache(); the deferred vs.mu.Unlock().  The
\* map assignments in flight go on writing into the map that was replaced
ClearCacheUnlock ==
    /\ ~crashed
    /\ clearer.pc = "clearing"
    /\ mu' = "free"
    /\ cache' = NewVestingCache
    /\ clearer' = [clearer EXCEPT !.pc = "idle"]
    /\ calls' = [d \in Calls |->
          [calls[d] EXCEPT !.workers = [j \in 1..Len(calls[d].workers) |->
              IF <<d, j>> \in Writers
              THEN [calls[d].workers[j] EXCEPT !.stale = TRUE]
              ELSE calls[d].workers[j]]]]
    /\ reader' = Observe(cache')
    /\ UNCHANGED <<crashed, arg, ret, nanInt>>

Next ==
    \/ \E c \in Calls, employees \in Batches, asOfDate \in AsOfPool :
          ProcessBatch(c, employees, asOfDate)
    \/ \E c \in Calls, i \in 1..MaxBatch : WorkerFail(c, i)
    \/ \E c \in Calls, i \in 1..MaxBatch : WorkerStoreBegin(c, i)
    \/ \E c \in Calls, i \in 1..MaxBatch : WorkerStoreEnd(c, i)
    \/ \E c \in Calls : ProcessBatchReturn(c)
    \/ Fatal
    \/ \E id \in IDs : GetResult(id)
    \/ \E ids \in Requests : GetBatchResults(ids)
    \/ GetResultLock
    \/ GetResultUnlock
    \/ ClearCacheLock
    \/ ClearCacheUnlock

Spec == Init /\ [][Next]_vars

(***************************************************************************)
(* ProcessBatch under fair scheduling: the Go scheduler runs every         *)
(* goroutine that can run, so a worker that can take its step takes it     *)
(* and a call whose workers are done returns.  Nothing obliges a client to *)
(* call ProcessBatch, nor the runtime to detect a race.                    *)
(***************************************************************************)
NextBatch ==
    \/ \E c \in Calls, employees \in Batches, asOfDate \in AsOfPool :
          ProcessBatch(c, employees, asOfDate)
    \/ \E c \in Calls, i \in 1..MaxBatch : WorkerFail(c, i)
    \/ \E c \in Calls, i \in 1..MaxBatch : WorkerStoreBegin(c, i)
    \/ \E c \in Calls, i \in 1..MaxBatch : WorkerStoreEnd(c, i)
    \/ \E c \in Calls : ProcessBatchReturn(c)
    \/ Fatal

FairScheduling ==
    \A c \in Calls :
        /\ WF_vars(ProcessBatchReturn(c))
        /\ \A i \in 1..MaxBatch :
               /\ WF_vars(WorkerFail(c, i))
               /\ WF_vars(WorkerStoreBegin(c, i))
               /\ WF_vars(WorkerStoreEnd(c, i))

SpecFair == Init /\ [][NextBatch]_vars /\ FairScheduling

(***************************************************************************)
(* calculateVesting applied on its own: the input is drawn at the start    *)
(* and Calculate applies the function to it.                               *)
(***************************************************************************)
MaxUnits == 16
MaxMonths == 66

CalcUnits == (1..MaxUnits) \cup {40000, 48000, 50000} \cup {0, -1000}
CalcSchedules ==
    {MkSchedule(c, v, t) : c \in {0 - 1, 0, 12}, v \in {11, 12, 23, 48},
                           t \in {"linear", "backloaded", "immediate"}}
CalcStart == MkDate(2021, 1, 1)
\* the first day of each of the months that follow CalcStart, two days
\* inside a month and a day before CalcStart
CalcDates ==
    {addMonths(CalcStart, k) : k \in 0..MaxMonths}
    \cup {MkDate(2022, 12, 27), MkDate(2023, 1, 10), MkDate(2020, 6, 15)}

CalcInputs ==
    {[employee |-> MkEmployee("emp", CalcStart, u, sch), asOfDate |-> d] :
        u \in CalcUnits, sch \in CalcSchedules, d \in CalcDates}

InitCalc ==
    /\ NewVestingService
    /\ nanInt \in IntOfNaN
    /\ arg \in CalcInputs
    /\ ret = NoRet

Calculate ==
    /\ ret = NoRet
    /\ ret' = calculateVesting(arg.employee, arg.asOfDate)
    /\ UNCHANGED <<cache, mu, calls, reader, clearer, crashed, arg, nanInt>>

NextCalc == Calculate

SpecCalc == InitCalc /\ [][NextCalc]_vars

(***************************************************************************)
(* monthsBetween applied on its own.                                       *)
(***************************************************************************)
MaxStartMonths == 3
MaxYears == 2

DaysOf(years, months) ==
    {dt \in {MkDate(y, m, d) : y \in years, m \in months, d \in 1..31} :
        dt.d <= DaysIn(dt.y, dt.m)}

MonthStarts ==
    DaysOf({2020}, 1..MaxStartMonths) \cup {MkDate(2021, 1, 1), MkDate(2023, 1, 15)}
MonthEnds ==
    DaysOf(2020..(2020 + MaxYears - 1), 1..12)
    \cup {MkDate(2023, 1, 1), MkDate(2023, 1, 15), MkDate(2023, 2, 10),
          MkDate(2023, 2, 15)}

InitMonths ==
    /\ NewVestingService
    /\ nanInt \in IntOfNaN
    /\ arg \in [start : MonthStarts, end : MonthEnds]
    /\ ret = NoRet

MonthsBetween ==
    /\ ret = NoRet
    /\ ret' = [months |-> monthsBetween(arg.start, arg.end)]
    /\ UNCHANGED <<cache, mu, calls, reader, clearer, crashed, arg, nanInt>>

NextMonths == MonthsBetween

SpecMonths == InitMonths /\ [][NextMonths]_vars

(***************************************************************************)
(* ValidateSchedule applied on its own, on a service whose cache is empty  *)
(* or holds an entry.                                                      *)
(***************************************************************************)
MaxCliff == 3
MaxVesting == 4

ValidateSchedules ==
    {MkSchedule(c, v, t) : c \in (0 - 1)..MaxCliff, v \in (0 - 1)..MaxVesting,
                           t \in {"linear", "backloaded", "immediate", ""}}
    \cup {MkSchedule(12, 48, "linear"), MkSchedule(12, 48, "backloaded"),
          MkSchedule(24, 12, "linear")}

\* the service as constructed, and as a ProcessBatch of one employee leaves it
ValidateServices ==
    {[cache |-> NewVestingCache, calls |-> [c \in Calls |-> NoCall]],
     [cache |-> MapPut(NewVestingCache, EmpA.ID,
                       calculateVesting(EmpA, MkDate(2020, 1, 1)).result),
      calls |-> [c \in Calls |->
                   IF c = 1
                   THEN [pc |-> "returned", employees |-> <<EmpA>>,
                         asOfDate |-> MkDate(2020, 1, 1),
                         workers |-> <<[pc |-> "done", raced |-> FALSE,
                                        stale |-> FALSE,
                                        result |-> calculateVesting(
                                            EmpA, MkDate(2020, 1, 1)).result,
                                        err |-> Nil]>>,
                         errors |-> << >>, ret |-> Nil, alone |-> TRUE]
                   ELSE NoCall]]}

InitValidate ==
    /\ nanInt \in IntOfNaN
    /\ \E svc \in ValidateServices :
           /\ cache = svc.cache
           /\ calls = svc.calls
    /\ mu = "free"
    /\ reader = NoRead
    /\ clearer = [pc |-> "idle", n |-> 0, clean |-> FALSE]
    /\ crashed = FALSE
    /\ arg \in [schedule : ValidateSchedules]
    /\ ret = NoRet

Validate ==
    /\ ret = NoRet
    /\ ret' = [err |-> ValidateSchedule(arg.schedule)]
    /\ UNCHANGED <<cache, mu, calls, reader, clearer, crashed, arg, nanInt>>

NextValidate == Validate

SpecValidate == InitValidate /\ [][NextValidate]_vars

(***************************************************************************)
(* The claims.                                                             *)
(***************************************************************************)

\* C1: no two accesses to the result cache overlap when at least one of them
\* is a write: while a ProcessBatch worker writes the map, no other worker
\* writes it and neither GetResult nor ClearCache is inside its access.
C1_NoOverlappingCacheAccess ==
    \A w \in Writers : Writers = {w} /\ ~ReaderIn /\ ~ClearerIn

\* the outcome of calculating every employee of the batch of call c is the
\* cache entry under the employee's ID
EntriesCached(c, m) ==
    \A i \in 1..Len(calls[c].employees) :
        calls[c].employees[i].TotalUnits > 0 =>
            /\ calls[c].employees[i].ID \in DOMAIN m
            /\ m[calls[c].employees[i].ID] =
                   calculateVesting(calls[c].employees[i], calls[c].asOfDate).result

AllPositive(employees) ==
    \A i \in 1..Len(employees) : employees[i].TotalUnits > 0

DistinctIDs(employees) ==
    \A i \in 1..Len(employees), j \in 1..Len(employees) :
        i # j => employees[i].ID # employees[j].ID

\* C2: when two ProcessBatch calls over the same records (all with a positive
\* grant) and the same asOfDate run concurrently and ClearCache is never
\* called, the process does not crash, each call that returns returns nil,
\* and once both have returned every employee of the batch has its outcome as
\* its cache entry.
C2_ConcurrentSameBatchSafe ==
    ( /\ calls[1].pc # "idle" /\ calls[2].pc # "idle"
      /\ ~calls[2].alone
      /\ clearer.n = 0
      /\ calls[1].employees = calls[2].employees
      /\ calls[1].asOfDate = calls[2].asOfDate
      /\ AllPositive(calls[1].employees) )
    => /\ ~crashed
       /\ \A c \in Calls : calls[c].pc = "returned" => calls[c].ret = Nil
       /\ (calls[1].pc = "returned" /\ calls[2].pc = "returned")
              => EntriesCached(1, cache)

\* C3: every outcome of calculateVesting for a positive grant and a schedule
\* that ValidateSchedule accepts has 0 <= vested <= totalUnits and
\* unvested >= 0.
C3_VestedWithinGrant ==
    ( /\ ret # NoRet
      /\ arg.employee.TotalUnits > 0
      /\ ValidateSchedule(arg.employee.Schedule) = Nil )
    => /\ ret.err = Nil
       /\ 0 <= ret.result.VestedUnits
       /\ ret.result.VestedUnits <= arg.employee.TotalUnits
       /\ ret.result.UnvestedUnits >= 0

\* the share, in 120ths, of the grant that has vested elapsed months past the
\* cliff when only completed years and the pro-rated year in progress count:
\* the tranches are 12, 24, 36 and 48 120ths
CompletedYears120(elapsed) ==
    LET k == elapsed \div 12
        r == elapsed % 12
        done == Min(k, 4)
    IN  6 * done * (done + 1) + (IF k < 4 /\ r > 0 THEN (k + 1) * r ELSE 0)

\* C4: backloaded vesting past the cliff is floor(totalUnits * (the tranches
\* of the completed post-cliff years + the pro-rated tranche of the year in
\* progress)).
C4_BackloadedCompletedYears ==
    LET e == arg.employee
        monthsEmployed == monthsBetween(e.StartDate, arg.asOfDate)
    IN  ( /\ ret # NoRet
          /\ e.TotalUnits > 0
          /\ e.Schedule.VestingType = "backloaded"
          /\ monthsEmployed >= e.Schedule.CliffMonths )
        => ret.result.VestedUnits =
               (e.TotalUnits
                * CompletedYears120(monthsEmployed - e.Schedule.CliffMonths))
               \div 120

\* C5: the linear employee with cliff 12, total 48 months and 48000 units,
\* processed at an asOfDate 24 months after the start date (2021-01-01 to
\* 2023-01-01), is cached with vested = 12000 and unvested = 36000.
C5_LinearOneYearPastCliff ==
    ( /\ EmpA.ID \in DOMAIN cache
      /\ cache[EmpA.ID].AsOfDate = MkDate(2023, 1, 1) )
    => /\ cache[EmpA.ID].VestedUnits = 12000
       /\ cache[EmpA.ID].UnvestedUnits = 36000

\* the largest n such that start advanced by n months is not after end
\* (for start before end)
CompleteMonths(start, end) ==
    Cardinality({n \in 0..(12 * (end.y - start.y + 1)) :
                    ~Before(end, addMonths(start, n))}) - 1

\* C6: for start before end, monthsBetween(start, end) is the number of
\* complete months elapsed: the largest n such that start advanced by n
\* months is not after end.
C6_MonthsBetweenCompleteMonths ==
    (ret # NoRet /\ Before(arg.start, arg.end))
    => ret.months = CompleteMonths(arg.start, arg.end)

\* C7: for a linear schedule with vestingMonths > cliffMonths >= 0 and a
\* positive grant, once monthsEmployed >= vestingMonths the outcome has
\* vested = totalUnits and unvested = 0.
C7_LinearFullyVestedExact ==
    LET e == arg.employee
    IN  ( /\ ret # NoRet
          /\ e.TotalUnits > 0
          /\ e.Schedule.VestingType = "linear"
          /\ ValidateSchedule(e.Schedule) = Nil
          /\ monthsBetween(e.StartDate, arg.asOfDate) >= e.Schedule.VestingMonths )
        => /\ ret.result.VestedUnits = e.TotalUnits
           /\ ret.result.UnvestedUnits = 0

\* C8: at the moment a ProcessBatch call over distinct IDs returns, no other
\* ProcessBatch call and no ClearCache having run during it, every employee of
\* the batch with a positive grant has the outcome of its calculation as its
\* cache entry; and a worker whose calculation fails writes no entry.
C8_EntriesWrittenOnReturn ==
    [][ /\ \A c \in Calls :
              ( /\ ProcessBatchReturn(c)
                /\ calls[c].alone
                /\ DistinctIDs(calls[c].employees) )
              => EntriesCached(c, cache')
        /\ \A c \in Calls, i \in 1..MaxBatch :
              WorkerFail(c, i) => cache' = cache ]_vars

\* C9: a ProcessBatch call that has returned has returned an error if and
\* only if some employee of its batch has totalUnits <= 0, and the error is
\* the error of one of those employees ("invalid total units" with its
\* units); otherwise, the empty batch included, it has returned nil.
C9_ErrorIffNonPositiveUnits ==
    \A c \in Calls :
        calls[c].pc = "returned" =>
            LET failing == {i \in 1..Len(calls[c].employees) :
                               calls[c].employees[i].TotalUnits <= 0}
            IN  /\ (calls[c].ret # Nil) <=> (failing # {})
                /\ calls[c].ret # Nil =>
                       \E i \in failing :
                           calls[c].ret =
                               [msg |-> "invalid total units",
                                units |-> calls[c].employees[i].TotalUnits]

\* a call has returned an error for a batch of one employee with a positive
\* grant and one without
C9_Witness ==
    \E c \in Calls :
        /\ calls[c].pc = "returned"
        /\ calls[c].ret # Nil
        /\ \E i \in 1..Len(calls[c].employees) :
               calls[c].employees[i].TotalUnits > 0
        /\ \E i \in 1..Len(calls[c].employees) :
               calls[c].employees[i].TotalUnits <= 0

\* the result of GetBatchResults(ids) on the cache m
GetBatchResultsOn(ids, m) ==
    LET missing == {i \in 1..Len(ids) : ids[i] \notin DOMAIN m}
        first == CHOOSE i \in missing : \A j \in missing : i <= j
    IN  IF missing # {}
        THEN [results |-> NilMap,
              err |-> [msg |-> "result not found for employee", id |-> ids[first]]]
        ELSE [results |-> [id \in {ids[i] : i \in 1..Len(ids)} |-> m[id]],
              err |-> Nil]

\* C10: a GetBatchResults(ids) call during which no ProcessBatch worker wrote
\* and no ClearCache ran has returned the error naming the first requested ID
\* without a cache entry, and no mapping, when there is such an ID, and
\* otherwise the mapping from exactly the requested IDs to their cache
\* entries; and no step of GetResult or GetBatchResults changes the cache.
C10_GetBatchResultsQuiescent ==
    /\ [](( /\ reader.pc = "returned"
            /\ reader.op = "GetBatchResults"
            /\ reader.quiet )
          => reader.ret = GetBatchResultsOn(reader.ids, cache))
    /\ [][ ( \/ \E id \in IDs : GetResult(id)
             \/ \E ids \in Requests : GetBatchResults(ids)
             \/ GetResultLock
             \/ GetResultUnlock )
           => cache' = cache ]_vars

\* an undisturbed GetBatchResults has returned the error for a request whose
\* first ID has a cache entry and whose second ID has none
C10_Witness ==
    /\ reader.pc = "returned"
    /\ reader.op = "GetBatchResults"
    /\ reader.quiet
    /\ Len(reader.ids) = 2
    /\ reader.ids[1] \in DOMAIN cache
    /\ reader.ids[2] \notin DOMAIN cache
    /\ reader.ret.err # Nil

\* C11: a GetResult that reads after ClearCache has returned, no ProcessBatch
\* call having been in flight since that ClearCache began, returns absent,
\* whatever the ID, and the cache then has no entry at all; ClearCache
\* replaces the cache in one step, during which no GetResult is reading.
C11_ClearCacheEmpties ==
    /\ []( (clearer.n > 0 /\ clearer.pc = "idle" /\ clearer.clean)
            => cache = NewVestingCache )
    /\ [](~(ClearerIn /\ ReaderIn))
    /\ [][ /\ ClearCacheUnlock => cache' = NewVestingCache
           /\ ( /\ GetResultUnlock
                /\ reader.op = "GetResult"
                /\ clearer.n > 0 /\ clearer.clean )
              => ~reader'.ret.exists ]_vars

\* GetResult(k) is reading after ClearCache has returned, and before that
\* ClearCache began a ProcessBatch call on its own had cached k
C11_Witness ==
    /\ reader.pc = "reading"
    /\ reader.op = "GetResult"
    /\ clearer.n > 0 /\ clearer.pc = "idle" /\ clearer.clean
    /\ \E c \in Calls :
           /\ calls[c].pc = "returned"
           /\ calls[c].alone
           /\ Len(calls[c].employees) = 1
           /\ calls[c].employees[1].TotalUnits > 0
           /\ calls[c].employees[1].ID = reader.ids[1]

\* C12: for a positive grant, whenever monthsBetween(startDate, asOfDate) is
\* less than cliffMonths, calculateVesting succeeds with vested = 0, unvested =
\* totalUnits and nextVestDate = addMonths(startDate, cliffMonths), whatever
\* the asOfDate and the vesting type.
C12_CliffRule ==
    LET e == arg.employee
    IN  ( /\ ret # NoRet
          /\ e.TotalUnits > 0
          /\ monthsBetween(e.StartDate, arg.asOfDate) < e.Schedule.CliffMonths )
        => /\ ret.err = Nil
           /\ ret.result.VestedUnits = 0
           /\ ret.result.UnvestedUnits = e.TotalUnits
           /\ ret.result.NextVestDate = addMonths(e.StartDate, e.Schedule.CliffMonths)

\* the outcome for an asOfDate before the start date, a cliff of 12 months
\* and a vesting type that is neither linear nor backloaded
C12_Witness ==
    /\ ret # NoRet
    /\ arg.employee.TotalUnits > 0
    /\ Before(arg.asOfDate, arg.employee.StartDate)
    /\ arg.employee.Schedule.CliffMonths = 12
    /\ arg.employee.Schedule.VestingType = "immediate"
    /\ ret.result.VestedUnits = 0
    /\ ret.result.NextVestDate = MkDate(2022, 1, 1)

\* C13: every outcome of a successful calculateVesting, whatever the schedule
\* (valid or not), the vesting type and the asOfDate, has vested + unvested =
\* totalUnits (in int arithmetic) and carries the employee's ID and the
\* asOfDate.
C13_VestedPlusUnvested ==
    (ret # NoRet /\ ret.err = Nil)
    => /\ WrapInt(ret.result.VestedUnits + ret.result.UnvestedUnits)
              = arg.employee.TotalUnits
       /\ ret.result.EmployeeID = arg.employee.ID
       /\ ret.result.AsOfDate = arg.asOfDate

\* the outcome for a linear schedule with vestingMonths = cliffMonths past the
\* cliff, on a build whose int(NaN) is the least int: vested is the least int
\* and the subtraction has wrapped
C13_Witness ==
    /\ ret # NoRet
    /\ ret.err = Nil
    /\ arg.employee.Schedule.VestingType = "linear"
    /\ arg.employee.Schedule.VestingMonths = arg.employee.Schedule.CliffMonths
    /\ ValidateSchedule(arg.employee.Schedule) # Nil
    /\ ret.result.VestedUnits = MinInt
    /\ ret.result.UnvestedUnits < 0

\* C14: ValidateSchedule returns an error if and only if cliffMonths < 0, or
\* vestingMonths <= cliffMonths, or the vesting type is neither "linear" nor
\* "backloaded"; and it leaves the state of the service as it is.
C14_ValidateScheduleIff ==
    /\ []( ret # NoRet =>
             ( (ret.err # Nil) <=>
               ( \/ arg.schedule.CliffMonths < 0
                 \/ arg.schedule.VestingMonths <= arg.schedule.CliffMonths
                 \/ arg.schedule.VestingType \notin {"linear", "backloaded"} ) ) )
    /\ [][Validate => UNCHANGED svcVars]_vars

\* on a service with a cache entry, ValidateSchedule has rejected a linear or
\* backloaded schedule with vestingMonths = cliffMonths >= 0
C14_Witness ==
    /\ ret # NoRet
    /\ cache # NewVestingCache
    /\ arg.schedule.CliffMonths >= 0
    /\ arg.schedule.VestingMonths = arg.schedule.CliffMonths
    /\ arg.schedule.VestingType \in {"linear", "backloaded"}
    /\ ret.err # Nil

\* C15: for a start whose day of the month is at most 28 and n >= 0,
\* monthsBetween(start, addMonths(start, n)) = n; and monthsBetween(start,
\* end) = 0 whenever start is not before end.
C15_MonthsBetweenInvertsAddMonths ==
    ret # NoRet =>
        /\ \A n \in 0..Max(0, 12 * (arg.end.y - arg.start.y + 1)) :
               (arg.start.d <= 28 /\ arg.end = addMonths(arg.start, n))
               => ret.months = n
        /\ ~Before(arg.start, arg.end) => ret.months = 0

\* monthsBetween(2021-01-01, 2023-01-01), the end being the start plus 24
\* months, has returned 24
C15_Witness ==
    /\ ret # NoRet
    /\ arg.start = MkDate(2021, 1, 1)
    /\ arg.end = addMonths(arg.start, 24)
    /\ ret.months = 24

\* the day after t
NextDay(t) ==
    IF t.d < DaysIn(t.y, t.m) THEN MkDate(t.y, t.m, t.d + 1)
    ELSE IF t.m < 12 THEN MkDate(t.y, t.m + 1, 1)
    ELSE MkDate(t.y + 1, 1, 1)

\* C16: monthsBetween does not decrease as its end advances: moving end to
\* the next day never lowers the result (so, day after day, end1 <= end2
\* gives monthsBetween(start, end1) <= monthsBetween(start, end2)).
C16_MonthsBetweenMonotonic ==
    ret # NoRet =>
        ret.months <= monthsBetween(arg.start, NextDay(arg.end))

\* for a start on the 31st, whose monthly steps run over the end of the
\* shorter months, the result is 13 and grows with the next day of end
C16_Witness ==
    /\ ret # NoRet
    /\ arg.start.d = 31
    /\ ret.months = 13
    /\ monthsBetween(arg.start, NextDay(arg.end)) = 14

\* the records of call c that have ID k and a positive grant
Granted(c, k) ==
    {i \in 1..Len(calls[c].employees) :
        calls[c].employees[i].ID = k /\ calls[c].employees[i].TotalUnits > 0}

\* C17: when a ProcessBatch call returns that began after an earlier call had
\* returned and ran on its own (a ClearCache between the two allowed), every
\* ID with a positive grant in both batches has the outcome of the second call
\* as its cache entry; and a worker's write leaves the entries of all other
\* IDs as they are.
C17_LastWriteWins ==
    [][ /\ ( /\ ProcessBatchReturn(2)
             /\ calls[1].pc = "returned"
             /\ calls[2].alone )
           => \A k \in IDs :
                  (Granted(1, k) # {} /\ Granted(2, k) # {})
                  => /\ k \in DOMAIN cache'
                     /\ \E i \in Granted(2, k) :
                            cache'[k] = calculateVesting(calls[2].employees[i],
                                                         calls[2].asOfDate).result
        /\ \A c \in Calls, i \in 1..MaxBatch :
               WorkerStoreEnd(c, i)
               => \A k \in DOMAIN cache :
                      k # calls[c].employees[i].ID
                      => (k \in DOMAIN cache' /\ cache'[k] = cache[k]) ]_vars

\* C18: for a linear schedule with vestingMonths > cliffMonths >= 0, a
\* positive grant and monthsEmployed >= cliffMonths, vested =
\* floor(totalUnits * min(monthsEmployed - cliffMonths, vestingMonths -
\* cliffMonths) / (vestingMonths - cliffMonths)).
C18_LinearFormula ==
    LET e == arg.employee
        monthsEmployed == monthsBetween(e.StartDate, arg.asOfDate)
        postCliff == e.Schedule.VestingMonths - e.Schedule.CliffMonths
    IN  ( /\ ret # NoRet
          /\ e.TotalUnits > 0
          /\ e.Schedule.VestingType = "linear"
          /\ ValidateSchedule(e.Schedule) = Nil
          /\ monthsEmployed >= e.Schedule.CliffMonths )
        => ret.result.VestedUnits =
               (e.TotalUnits * Min(monthsEmployed - e.Schedule.CliffMonths, postCliff))
               \div postCliff

\* the share of the grant, in 120ths, that the tranches at indexes 0 through
\* the number of full years (at most 3) add up to, plus the pro-rated tranche
\* of the year in progress
Inclusive120(elapsed) ==
    LET fullYears == elapsed \div 12
        remainderMonths == elapsed % 12
        last == Min(fullYears, 3)
    IN  6 * (last + 1) * (last + 2)
        + (IF fullYears < 4 /\ remainderMonths > 0
           THEN (fullYears + 1) * remainderMonths ELSE 0)

C20_NextVestDate ==
    LET e == arg.employee
    IN  ( /\ ret # NoRet
          /\ ret.err = Nil
          /\ monthsBetween(e.StartDate, arg.asOfDate) >= e.Schedule.CliffMonths )
        => /\ ret.result.VestedUnits < e.TotalUnits
                  => ret.result.NextVestDate = addMonths(arg.asOfDate, 1)
           /\ ret.result.VestedUnits >= e.TotalUnits
                  => ret.result.NextVestDate = ZeroTime

\* a linear grant fully vested: vested = totalUnits and the next vest date is
\* the zero date
C20_Witness ==
    /\ ret # NoRet
    /\ ret.err = Nil
    /\ arg.employee.Schedule.VestingType = "linear"
    /\ ValidateSchedule(arg.employee.Schedule) = Nil
    /\ ret.result.VestedUnits = arg.employee.TotalUnits
    /\ ret.result.NextVestDate = ZeroTime
    /\ arg.asOfDate # ZeroTime

\* C21: calculateVesting rejects no schedule: for a positive grant it returns
\* no error, whatever the schedule; and when the vesting type is neither
\* "linear" nor "backloaded" the outcome has vested = 0 and unvested =
\* totalUnits at every asOfDate, before and past the cliff.
C21_UnknownTypeVestsNothing ==
    (ret # NoRet /\ arg.employee.TotalUnits > 0)
    => /\ ret.err = Nil
       /\ arg.employee.Schedule.VestingType \notin {"linear", "backloaded"}
              => /\ ret.result.VestedUnits = 0
                 /\ ret.result.UnvestedUnits = arg.employee.TotalUnits

\* the outcome, 24 months in and past a cliff of 12 months, for a vesting
\* type that is neither linear nor backloaded
C21_Witness ==
    /\ ret # NoRet
    /\ arg.employee.TotalUnits = 40000
    /\ arg.employee.Schedule.VestingType = "immediate"
    /\ arg.employee.Schedule.CliffMonths = 12
    /\ monthsBetween(arg.employee.StartDate, arg.asOfDate) = 24
    /\ ret.err = Nil
    /\ ret.result.VestedUnits = 0
    /\ ret.result.UnvestedUnits = 40000

\* C22: under fair scheduling every ProcessBatch call that has started
\* eventually returns, whatever the size of the batch and the number of
\* failing employees; it has one worker per employee, a failing worker always
\* finds room in the error channel, and the call returns only when all its
\* workers have finished.
C22_ProcessBatchReturns ==
    /\ \A c \in Calls : (calls[c].pc = "running") ~> (calls[c].pc = "returned")
    /\ [](\A c \in Calls :
             /\ Len(calls[c].workers) = Len(calls[c].employees)
             /\ Len(calls[c].errors) <= Len(calls[c].employees)
             /\ \A i \in 1..Len(calls[c].workers) :
                    ( /\ calls[c].pc = "running"
                      /\ calls[c].workers[i].pc = "ready"
                      /\ calls[c].workers[i].err # Nil )
                    => Len(calls[c].errors) < Len(calls[c].employees))
    /\ [][\A c \in Calls :
             ProcessBatchReturn(c)
             => \A i \in 1..Len(calls[c].workers) :
                    calls[c].workers[i].pc = "done"]_vars

\* under fair scheduling a ProcessBatch call that has started eventually
\* returns unless the runtime stops the process
C22_ReturnsUnlessCrashed ==
    \A c \in Calls :
        (calls[c].pc = "running") ~> (calls[c].pc = "returned" \/ crashed)

\* C23: vesting never goes backwards: for an employee with TotalUnits > 0 and
\* a schedule that ValidateSchedule accepts, the vested units at the next day
\* and at the same day of the next month are at least the vested units at
\* asOfDate (so, step after step, asOf1 <= asOf2 gives
\* vested(asOf1) <= vested(asOf2)).
C23_VestingNeverGoesBackwards ==
    ( /\ ret # NoRet
      /\ arg.employee.TotalUnits > 0
      /\ ValidateSchedule(arg.employee.Schedule) = Nil )
    => \A later \in {NextDay(arg.asOfDate), addMonths(arg.asOfDate, 1)} :
           ret.result.VestedUnits
               <= calculateVesting(arg.employee, later).result.VestedUnits

\* C24: a GetBatchResults call that has returned, with ProcessBatch or
\* ClearCache running meanwhile, read a consistent snapshot: the mapping of a
\* successful call is the contents of the cache for the requested IDs at one
\* instant of the call, and the ID named by a failing call was absent from the
\* cache at an instant of the call.
C24_GetBatchResultsSnapshot ==
    (reader.op = "GetBatchResults" /\ reader.pc = "returned")
    => IF reader.ret.err = Nil
       THEN reader.ret.results \in reader.seen
       ELSE \E s \in reader.seen : reader.ret.err.id \notin DOMAIN s

=============================================================================
